---- MODULE Spec2Model ----
(***************************************************************************)
(* A model of theory_test_parser::question_parser: the markup answer       *)
(* decoder parse_answers and the worksheet reader                          *)
(* ExamQuestions::parse_from_workbook.                                     *)
(*                                                                         *)
(* Text is a sequence of characters, each character a one-character        *)
(* string.  Three characters outside ASCII are written by name:            *)
(*   "laquo" is U+00AB, "raquo" is U+00BB, "Ve" is U+0412 (the Cyrillic   *)
(*   capital letter that looks like the Latin "B").                        *)
(* A markup token is what quick_xml's read_event returns: a record         *)
(*   [kind, name, attrs, text], kind in Text, Start, Empty, End, Err,      *)
(*   Other (comments, declarations, ...).  End-of-input is not a token:    *)
(*   it is the Eof step of the scan.                                       *)
(***************************************************************************)
EXTENDS Integers, Sequences, FiniteSets, TLC

VARIABLES
    pc,               \* parse_answers: "scan" inside the loop, "done" after return
    possible_answers, \* Vec<String>
    license_classes,  \* Vec<LicenseClass>
    correct_answer,   \* usize
    image_url,        \* Option<String>: <<>> is None, <<u>> is Some(u)
    runs,             \* history: the text runs read so far, in document order
    markers,          \* history: for each marker tag read, the number of text runs read before it
    imgs,             \* history: the source values of the image elements read so far
    errs,             \* history: the number of error tokens read
    nread,            \* history: the number of tokens read
    lineSegs,         \* history: the pieces the classes line read was built from
    lineKind,         \* history: how that line was delimited ("" when none was read)
    wpc,              \* parse_from_workbook: the statement it is at
    headers,          \* the worksheet's first row; <<>> for a worksheet with no row
    rows,             \* history: the data rows the loop has taken, in worksheet order
    lookups,          \* history: the header names looked up so far
    answers_column,   \* 1-based here; 0 before it is resolved
    question_column,
    category_column,
    questions,        \* Vec<Question>
    result,           \* "" while running, "Ok", the Error variant's name, or "panic"
    epc,              \* Exam: the statement it is at
    exam_questions,   \* the bank handed to Exam
    num_questions,    \* the number of questions asked for
    b_questions,      \* the questions of the bank for license class B
    memo_questions,   \* the value of the `questions` memo: the questions chosen
    shuffled,         \* the number of chosen questions the loop has shuffled
    original          \* history: the questions chosen, as they were before the loop

scanVars == <<pc, possible_answers, license_classes, correct_answer, image_url,
              runs, markers, imgs, errs, nread>>

lineVars == <<lineSegs, lineKind>>

bookVars == <<wpc, headers, rows, lookups, answers_column, question_column,
              category_column, questions, result>>

examVars == <<epc, exam_questions, num_questions, b_questions, memo_questions,
              shuffled, original>>

vars == <<scanVars, lineVars, bookVars, examVars>>

----------------------------------------------------------------------------
(* Bounds of the model *)

MaxTokens == 6
MaxSegs == 5
MaxCols == 4
MaxRows == 2
MaxBank == 2

----------------------------------------------------------------------------
(* str primitives, as the standard library computes them *)

Min(a, b) == IF a < b THEN a ELSE b

StartsWith(s, p) == Len(s) >= Len(p) /\ SubSeq(s, 1, Len(p)) = p

EndsWith(s, p) == Len(s) >= Len(p) /\ SubSeq(s, Len(s) - Len(p) + 1, Len(s)) = p

Contains(s, p) ==
    \E i \in 1..(Len(s) - Len(p) + 1) : SubSeq(s, i, i + Len(p) - 1) = p

IsWhitespace(c) == c \in {" ", "\t", "\n"}

RECURSIVE TrimEnd(_)
TrimEnd(s) ==
    IF s # <<>> /\ IsWhitespace(s[Len(s)]) THEN TrimEnd(SubSeq(s, 1, Len(s) - 1)) ELSE s

----------------------------------------------------------------------------
(* The literals of parse_answers *)

POSSIBLE_ANSWERS_NUM == 4

Pipe == <<"|">>
TagA == <<"laquo", "A", "raquo">>
TagB == <<"laquo", "Ve", "raquo">>
TagC1 == <<"laquo", "C", "1", "raquo">>
TagC == <<"laquo", "C", "raquo">>
TagD == <<"laquo", "D", "raquo">>
CorrectAnswerPrefix == <<"c", "o", "r", "r", "e", "c", "t", "A", "n", "s", "w", "e", "r">>

----------------------------------------------------------------------------
(* parse_answers: the accumulators as a record, one operator per match arm *)

NewScan ==
    [possible_answers |-> <<>>, license_classes |-> <<>>,
     correct_answer |-> 0, image_url |-> <<>>]

PushIf(cond, v, c) == IF cond THEN Append(v, c) ELSE v

\* mutant of ClassesOf: the tag of class B spelled with the Latin letter
ClassesOfLatinB(text, v) ==
    LET v1 == PushIf(Contains(text, TagA), v, "A")
        v2 == PushIf(Contains(text, <<"laquo", "B", "raquo">>), v1, "B")
        v3 == PushIf(Contains(text, TagC1), v2, "C")
        v4 == PushIf(Contains(text, TagC), v3, "C1")
    IN  PushIf(Contains(text, TagD), v4, "D")

ClassesOf(text, v) ==
    LET v1 == PushIf(Contains(text, TagA), v, "A")
        v2 == PushIf(Contains(text, TagB), v1, "B")
        v3 == PushIf(Contains(text, TagC1), v2, "C")
        v4 == PushIf(Contains(text, TagC), v3, "C1")
    IN  PushIf(Contains(text, TagD), v4, "D")

IsClassesLine(text) == StartsWith(text, Pipe) /\ EndsWith(TrimEnd(text), Pipe)

\* mutant of OnText: the bound test off by one, a fifth answer is collected
OnTextFive(st, text) ==
    IF Len(st.possible_answers) <= POSSIBLE_ANSWERS_NUM
    THEN [st EXCEPT !.possible_answers = Append(@, text)]
    ELSE IF IsClassesLine(text)
         THEN [st EXCEPT !.license_classes = ClassesOf(text, @)]
         ELSE st

OnText(st, text) ==
    IF Len(st.possible_answers) < POSSIBLE_ANSWERS_NUM
    THEN [st EXCEPT !.possible_answers = Append(@, text)]
    ELSE IF IsClassesLine(text)
         THEN [st EXCEPT !.license_classes = ClassesOf(text, @)]
         ELSE st

IsCorrectAnswerAttr(a) ==
    a.ok /\ a.key = <<"i", "d">> /\ StartsWith(a.value, CorrectAnswerPrefix)

\* mutant of OnStart: the id is searched for the prefix instead of tested at its start
OnStartAnyId(st, start) ==
    IF start.name = "span"
       /\ \E i \in DOMAIN start.attrs :
             /\ start.attrs[i].ok
             /\ start.attrs[i].key = <<"i", "d">>
             /\ Contains(start.attrs[i].value, CorrectAnswerPrefix)
    THEN [st EXCEPT !.correct_answer = Len(st.possible_answers)]
    ELSE st

\* mutant of OnStart: the index of the answer collected last is recorded
OnStartPrev(st, start) ==
    IF start.name = "span" /\ \E i \in DOMAIN start.attrs : IsCorrectAnswerAttr(start.attrs[i])
    THEN [st EXCEPT !.correct_answer =
                        IF st.possible_answers = <<>> THEN 0 ELSE Len(st.possible_answers) - 1]
    ELSE st

OnStart(st, start) ==
    IF start.name = "span" /\ \E i \in DOMAIN start.attrs : IsCorrectAnswerAttr(start.attrs[i])
    THEN [st EXCEPT !.correct_answer = Len(st.possible_answers)]
    ELSE st

RECURSIVE LastSrc(_, _)
LastSrc(attrs, url) ==
    IF attrs = <<>> THEN url
    ELSE LET a == Head(attrs)
         IN  LastSrc(Tail(attrs),
                     IF a.ok /\ a.key = <<"s", "r", "c">> THEN <<a.value>> ELSE url)

\* mutant of OnEmpty: an image reference already recorded is kept
OnEmptyFirst(st, tag) ==
    IF tag.name = "img" /\ st.image_url = <<>>
    THEN [st EXCEPT !.image_url = LastSrc(tag.attrs, @)]
    ELSE st

OnEmpty(st, tag) ==
    IF tag.name = "img"
    THEN [st EXCEPT !.image_url = LastSrc(tag.attrs, @)]
    ELSE st

\* mutant of OnErr: the scan starts over after an error
OnErrReset(st) == [st EXCEPT !.possible_answers = <<>>]

OnErr(st) == st

OnEvent(st, tok) ==
    CASE tok.kind = "Err" -> OnErr(st)
      [] tok.kind = "Text" -> OnText(st, tok.text)
      [] tok.kind = "Start" -> OnStart(st, tok)
      [] tok.kind = "Empty" -> OnEmpty(st, tok)
      [] OTHER -> st

RECURSIVE ScanFrom(_, _)
ScanFrom(st, tokens) ==
    IF tokens = <<>> THEN st ELSE ScanFrom(OnEvent(st, Head(tokens)), Tail(tokens))

parse_answers(tokens) == ScanFrom(NewScan, tokens)

----------------------------------------------------------------------------
(* The markup tokens the scan is run on *)

Token(kind, name, attrs, text) ==
    [kind |-> kind, name |-> name, attrs |-> attrs, text |-> text]

Attr(key, value) == [ok |-> TRUE, key |-> key, value |-> value]

\* an attribute the tokenizer could not parse: attributes() yields Err for it
BadAttr == [ok |-> FALSE, key |-> <<>>, value |-> <<>>]

KeyId == <<"i", "d">>
KeySrc == <<"s", "r", "c">>
KeyStyle == <<"s", "t", "y", "l", "e">>
Url1 == <<"u", "1">>
Url2 == <<"u", "2">>

\* <span style="x" id="correctAnswer0">
SpanMarker ==
    Token("Start", "span",
          <<Attr(KeyStyle, <<"x">>), Attr(KeyId, CorrectAnswerPrefix \o <<"0">>)>>, <<>>)
\* <span id="xcorrectAnswer">: the id holds the prefix, but not at its start
SpanPlain == Token("Start", "span", <<Attr(KeyId, <<"x">> \o CorrectAnswerPrefix)>>, <<>>)
\* <div id="correctAnswer0">: the id of a marker on a tag that is no span
DivMarker == Token("Start", "div", <<Attr(KeyId, CorrectAnswerPrefix \o <<"0">>)>>, <<>>)
\* <img src="u1"> left open: an opening tag, not a self-closing one
ImgOpen == Token("Start", "img", <<Attr(KeySrc, Url1)>>, <<>>)
\* <img src="u1" style="x"/>
Img1 == Token("Empty", "img", <<Attr(KeySrc, Url1), Attr(KeyStyle, <<"x">>)>>, <<>>)
\* <img =bad src="u2"/>
Img2 == Token("Empty", "img", <<BadAttr, Attr(KeySrc, Url2)>>, <<>>)
\* <img style="x"/>
ImgNoSrc == Token("Empty", "img", <<Attr(KeyStyle, <<"x">>)>>, <<>>)
\* <span id="correctAnswer0"/>: self-closing, so no opening tag
SpanEmptyMarker ==
    Token("Empty", "span", <<Attr(KeyId, CorrectAnswerPrefix \o <<"0">>)>>, <<>>)
EndTag == Token("End", "span", <<>>, <<>>)
ErrToken == Token("Err", "", <<>>, <<>>)

StartTokens == {SpanMarker, SpanPlain, DivMarker, ImgOpen}
EmptyTokens == {Img1, Img2, ImgNoSrc, SpanEmptyMarker}
OtherTokens == {EndTag}

\* What the claims call these tokens, stated on the tokens themselves
MarkerTags == {SpanMarker}
ImageSource(tok) ==
    IF tok = Img1 THEN <<Url1>> ELSE IF tok = Img2 THEN <<Url2>> ELSE <<>>

\* Text runs: two plain answers, and texts that look like the classes line
TextA == <<"a">>
LineA == Pipe \o TagA \o Pipe
LineC1C == Pipe \o TagC1 \o Pipe \o TagC \o Pipe \o <<" ">>
LineOpen == Pipe \o TagB
Texts == {TextA, LineA, LineC1C, LineOpen}

----------------------------------------------------------------------------
(* parse_answers as a state machine: one step per read_event *)

Cur ==
    [possible_answers |-> possible_answers, license_classes |-> license_classes,
     correct_answer |-> correct_answer, image_url |-> image_url]

Read(tok) ==
    /\ pc = "scan"
    /\ nread < MaxTokens
    /\ \E st \in {OnEvent(Cur, tok)} :
          /\ possible_answers' = st.possible_answers
          /\ license_classes' = st.license_classes
          /\ correct_answer' = st.correct_answer
          /\ image_url' = st.image_url
    /\ runs' = IF tok.kind = "Text" THEN Append(runs, tok.text) ELSE runs
    /\ markers' = IF tok \in MarkerTags THEN Append(markers, Len(runs)) ELSE markers
    /\ imgs' = imgs \o ImageSource(tok)
    /\ errs' = IF tok.kind = "Err" THEN errs + 1 ELSE errs
    /\ nread' = nread + 1
    /\ pc' = pc

ReadErr == Read(ErrToken) /\ UNCHANGED <<lineVars, bookVars, examVars>>

ReadText ==
    \E t \in Texts : Read(Token("Text", "", <<>>, t)) /\ UNCHANGED <<lineVars, bookVars, examVars>>

ReadStart == \E tok \in StartTokens : Read(tok) /\ UNCHANGED <<lineVars, bookVars, examVars>>

ReadEmpty == \E tok \in EmptyTokens : Read(tok) /\ UNCHANGED <<lineVars, bookVars, examVars>>

ReadOther == \E tok \in OtherTokens : Read(tok) /\ UNCHANGED <<lineVars, bookVars, examVars>>

ReadEof ==
    /\ pc = "scan"
    /\ pc' = "done"
    /\ UNCHANGED <<possible_answers, license_classes, correct_answer, image_url,
                   runs, markers, imgs, errs, nread>>
    /\ UNCHANGED <<lineVars, bookVars, examVars>>

ScanInit ==
    /\ pc = "scan"
    /\ possible_answers = <<>>
    /\ license_classes = <<>>
    /\ correct_answer = 0
    /\ image_url = <<>>
    /\ runs = <<>>
    /\ markers = <<>>
    /\ imgs = <<>>
    /\ errs = 0
    /\ nread = 0
    /\ lineSegs = <<>>
    /\ lineKind = ""

\* the worksheet reader before its first statement, on a worksheet with no row
BookIdle ==
    /\ wpc = "description4"
    /\ headers = <<>>
    /\ rows = <<>>
    /\ lookups = <<>>
    /\ answers_column = 0
    /\ question_column = 0
    /\ category_column = 0
    /\ questions = <<>>
    /\ result = ""

\* Exam before its first statement, on an empty bank
ExamIdle ==
    /\ epc = "filter"
    /\ exam_questions = <<>>
    /\ num_questions = 0
    /\ b_questions = <<>>
    /\ memo_questions = <<>>
    /\ shuffled = 0
    /\ original = <<>>

Init == ScanInit /\ BookIdle /\ ExamIdle

Next == ReadErr \/ ReadEof \/ ReadText \/ ReadStart \/ ReadEmpty \/ ReadOther

Spec == Init /\ [][Next]_vars

FairSpec == Spec /\ WF_vars(Next)

----------------------------------------------------------------------------
(* The scan of four answers followed by one text run built from the tags of *)
(* the classes line: every sequence of at most MaxSegs pieces, delimited in *)
(* four ways.                                                               *)

\* the five tags, the tag of B spelled with the Latin letter, and a separator
Pieces == {"A", "Ve", "C1", "C", "D", "B", "Sep"}

PieceText(p) ==
    CASE p = "A" -> TagA
      [] p = "Ve" -> TagB
      [] p = "C1" -> TagC1
      [] p = "C" -> TagC
      [] p = "D" -> TagD
      [] p = "B" -> <<"laquo", "B", "raquo">>
      [] OTHER -> <<" ", "|", " ">>

RECURSIVE Flatten(_)
Flatten(segs) == IF segs = <<>> THEN <<>> ELSE PieceText(Head(segs)) \o Flatten(Tail(segs))

\* "line" and "lineSpace" start with a pipe and end with one once trimmed
\* ("lineSpace" is spaced as the worksheet's lines are: "| ... | ");
\* "noLead" starts with a space and "noTrail" ends with a letter
LineKinds == {"line", "lineSpace", "noLead", "noTrail"}

LineText(kind, segs) ==
    CASE kind = "line" -> Pipe \o Flatten(segs) \o Pipe
      [] kind = "lineSpace" -> Pipe \o <<" ">> \o Flatten(segs) \o <<" ">> \o Pipe \o <<" ">>
      [] kind = "noLead" -> <<" ">> \o Pipe \o Flatten(segs) \o Pipe
      [] OTHER -> Pipe \o Flatten(segs) \o <<"x">>

SegSeqs == UNION {[1..n -> Pieces] : n \in 0..MaxSegs}

LineReadAnswer ==
    /\ Len(runs) < POSSIBLE_ANSWERS_NUM
    /\ Read(Token("Text", "", <<>>, TextA))
    /\ UNCHANGED <<lineVars, bookVars, examVars>>

LineReadLine ==
    /\ Len(runs) = POSSIBLE_ANSWERS_NUM
    /\ \E kind \in LineKinds, segs \in SegSeqs :
          /\ Read(Token("Text", "", <<>>, LineText(kind, segs)))
          /\ lineSegs' = segs
          /\ lineKind' = kind
    /\ UNCHANGED <<bookVars, examVars>>

LineNext == LineReadAnswer \/ LineReadLine \/ ReadEof

LineSpec == Init /\ [][LineNext]_vars

----------------------------------------------------------------------------
(* QuestionCategory::from_str_he; the four Hebrew labels are written by the *)
(* names of their constants.  An Option is a sequence of at most one value. *)

from_str_he(str) ==
    CASE str = "SAFETY_HE" -> <<"Safety">>
      [] str = "TRAFFIC_LAWS_HE" -> <<"TrafficLaws">>
      [] str = "CAR_KNOWLEDGE_HE" -> <<"CarKnowledge">>
      [] str = "ROAD_SIGNS_HE" -> <<"RoadSigns">>
      [] OTHER -> <<>>

----------------------------------------------------------------------------
(* The worksheet: cells, header lookup, the decoding of one row *)

StrCell(v) == [str |-> TRUE, val |-> v]
NonStrCell == [str |-> FALSE, val |-> <<>>]

\* DataType::as_string
as_string(cell) == IF cell.str THEN <<cell.val>> ELSE <<>>

\* mutant of Find: header names compared without regard to case
FindAnyCase(hs, name) ==
    LET same(h) == h = name \/ (h = "Title2" /\ name = "title2")
    IN  IF \E i \in DOMAIN hs : same(hs[i])
        THEN CHOOSE i \in DOMAIN hs : same(hs[i]) /\ \A j \in 1..(i - 1) : ~same(hs[j])
        ELSE 0

\* mutant of Find: the search starts at the second column
FindSkipFirst(hs, name) ==
    IF \E i \in DOMAIN hs : i > 1 /\ hs[i] = name
    THEN CHOOSE i \in DOMAIN hs :
            i > 1 /\ hs[i] = name /\ \A j \in 2..(i - 1) : hs[j] # name
    ELSE 0

\* headers().iter().enumerate().find(|(_, h)| h == name): the first match, 0 for None
Find(hs, name) ==
    IF \E i \in DOMAIN hs : hs[i] = name
    THEN CHOOSE i \in DOMAIN hs : hs[i] = name /\ \A j \in 1..(i - 1) : hs[j] # name
    ELSE 0

Digits == <<"0", "1", "2", "3", "4", "5", "6", "7", "8", "9">>

IsDigit(c) == \E d \in DOMAIN Digits : Digits[d] = c

DigitValue(c) == (CHOOSE d \in DOMAIN Digits : Digits[d] = c) - 1

RECURSIVE DecimalValue(_)
DecimalValue(s) ==
    IF s = <<>> THEN 0
    ELSE 10 * DecimalValue(SubSeq(s, 1, Len(s) - 1)) + DigitValue(s[Len(s)])

\* str::parse::<usize>: an optional plus sign, then one or more digits
ParseUsize(s) ==
    LET body == IF s # <<>> /\ Head(s) = "+" THEN Tail(s) ELSE s
    IN  IF body # <<>> /\ \A i \in DOMAIN body : IsDigit(body[i])
        THEN <<DecimalValue(body)>>
        ELSE <<>>

\* mutant of NumOf: the prefix cut one character short
NumOfThree(question) ==
    IF Len(question) < 3 THEN <<>> ELSE ParseUsize(SubSeq(question, 1, 3))

\* question[0..=3].parse(): <<>> where the slice or the parse panics
NumOf(question) ==
    IF Len(question) < 4 THEN <<>> ELSE ParseUsize(SubSeq(question, 1, 4))

\* The body of the loop on one row: the Question pushed, or <<>> where an
\* expect or unwrap panics.
ParseRow(row, qc, ac, cc) ==
    LET question == as_string(row[qc])
        answers == as_string(row[ac])
        category == as_string(row[cc])
    IN  IF question = <<>> \/ answers = <<>> \/ category = <<>>
        THEN <<>>
        ELSE LET parsed == parse_answers(answers[1])
                 cat == from_str_he(category[1])
                 num == NumOf(question[1])
             IN  IF cat = <<>> \/ num = <<>>
                 THEN <<>>
                 ELSE <<[num |-> num[1],
                         question |-> question[1],
                         answers |-> [possible_answers |-> parsed.possible_answers,
                                      correct_answer |-> parsed.correct_answer],
                         license_classes |-> parsed.license_classes,
                         image_url |-> parsed.image_url,
                         category |-> cat[1]]>>

\* The loop over the data rows: the records pushed, and "panic" where a row is
\* fatal (the rows after it are never taken).
RECURSIVE ParseRows(_, _, _, _, _)
ParseRows(rs, qc, ac, cc, acc) ==
    IF rs = <<>> THEN [result |-> "Ok", questions |-> acc]
    ELSE LET parsed == ParseRow(Head(rs), qc, ac, cc)
         IN  IF parsed = <<>>
             THEN [result |-> "panic", questions |-> acc]
             ELSE ParseRows(Tail(rs), qc, ac, cc, Append(acc, parsed[1]))

\* parse_from_workbook on a whole worksheet: header row hs, data rows rs
parse_from_workbook(hs, rs) ==
    IF hs = <<>> THEN [result |-> "panic", questions |-> <<>>]
    ELSE IF Find(hs, "description4") = 0
    THEN [result |-> "NoDescription4Header", questions |-> <<>>]
    ELSE IF Find(hs, "title2") = 0
    THEN [result |-> "NoTitle2Header", questions |-> <<>>]
    ELSE IF Find(hs, "category") = 0
    THEN [result |-> "NoCategoryHeader", questions |-> <<>>]
    ELSE ParseRows(rs, Find(hs, "title2"), Find(hs, "description4"),
                   Find(hs, "category"), <<>>)

----------------------------------------------------------------------------
(* The worksheets parse_from_workbook is run on *)

HeaderNames == {"title2", "description4", "category", "Title2"}

HeaderRows == UNION {[1..n -> HeaderNames] : n \in 1..MaxCols}

Question1 == <<"0", "0", "0", "1", ".", "q">>
Question2 == <<"0", "0", "1", "2", "x">>
QuestionAlpha == <<"1", "2", "a", "b">>
QuestionShort == <<"7">>

TextToken(t) == Token("Text", "", <<>>, t)

\* four answers with the marker on the first, an image and a classes line
Markup1 ==
    <<SpanMarker, TextToken(TextA), EndTag, TextToken(LineOpen), TextToken(LineA),
      TextToken(TextA), Img1, TextToken(LineC1C)>>
\* two answers with the marker on the second
Markup2 == <<TextToken(TextA), SpanMarker, TextToken(LineA)>>

FillerCell == StrCell(<<"x">>)

\* cells a row is decoded from, and cells that are fatal to the parse
QuestionCells == {StrCell(Question1), StrCell(Question2)}
MarkupCells == {StrCell(Markup1), StrCell(Markup2)}
CategoryCells == {StrCell("SAFETY_HE"), StrCell("ROAD_SIGNS_HE")}
BadQuestionCells == {StrCell(QuestionAlpha), StrCell(QuestionShort)}
BadMarkupCells == {NonStrCell}
BadCategoryCells == {StrCell("Safety")}

\* A data row under a header row: the first column of each required name holds
\* the cell given for it, every other column a filler.
DataRow(hs, q, m, c) ==
    [j \in DOMAIN hs |->
        IF j = Find(hs, "title2") THEN q
        ELSE IF j = Find(hs, "description4") THEN m
        ELSE IF j = Find(hs, "category") THEN c
        ELSE FillerCell]

\* The data rows drawn: every row of good cells, and the rows with one fatal cell.
DataRows(hs) ==
    {DataRow(hs, q, m, c) : q \in QuestionCells, m \in MarkupCells, c \in CategoryCells}
    \cup {DataRow(hs, q, StrCell(Markup1), StrCell("SAFETY_HE")) : q \in BadQuestionCells}
    \cup {DataRow(hs, StrCell(Question1), m, StrCell("SAFETY_HE")) : m \in BadMarkupCells}
    \cup {DataRow(hs, StrCell(Question1), StrCell(Markup1), c) : c \in BadCategoryCells}

----------------------------------------------------------------------------
(* parse_from_workbook as a state machine: the three lookups, the skipped   *)
(* header row, one step per data row, the return.                           *)

Fail(err) ==
    /\ result' = err
    /\ wpc' = "done"
    /\ UNCHANGED <<answers_column, question_column, category_column>>

FindDescription4 ==
    /\ wpc = "description4"
    /\ lookups' = Append(lookups, "description4")
    /\ IF headers = <<>> THEN Fail("panic")
       ELSE IF Find(headers, "description4") = 0 THEN Fail("NoDescription4Header")
       ELSE /\ answers_column' = Find(headers, "description4")
            /\ wpc' = "title2"
            /\ UNCHANGED <<question_column, category_column, result>>
    /\ UNCHANGED <<headers, rows, questions, scanVars, lineVars, examVars>>

\* mutant of FindTitle2: the error of the lookup before it, copied
FindTitle2Copied ==
    /\ wpc = "title2"
    /\ lookups' = Append(lookups, "title2")
    /\ IF headers = <<>> THEN Fail("panic")
       ELSE IF Find(headers, "title2") = 0 THEN Fail("NoDescription4Header")
       ELSE /\ question_column' = Find(headers, "title2")
            /\ wpc' = "category"
            /\ UNCHANGED <<answers_column, category_column, result>>
    /\ UNCHANGED <<headers, rows, questions, scanVars, lineVars, examVars>>

FindTitle2 ==
    /\ wpc = "title2"
    /\ lookups' = Append(lookups, "title2")
    /\ IF headers = <<>> THEN Fail("panic")
       ELSE IF Find(headers, "title2") = 0 THEN Fail("NoTitle2Header")
       ELSE /\ question_column' = Find(headers, "title2")
            /\ wpc' = "category"
            /\ UNCHANGED <<answers_column, category_column, result>>
    /\ UNCHANGED <<headers, rows, questions, scanVars, lineVars, examVars>>

FindCategory ==
    /\ wpc = "category"
    /\ lookups' = Append(lookups, "category")
    /\ IF headers = <<>> THEN Fail("panic")
       ELSE IF Find(headers, "category") = 0 THEN Fail("NoCategoryHeader")
       ELSE /\ category_column' = Find(headers, "category")
            /\ wpc' = "skip"
            /\ UNCHANGED <<answers_column, question_column, result>>
    /\ UNCHANGED <<headers, rows, questions, scanVars, lineVars, examVars>>

\* rows().skip(1): the header row is taken and dropped
SkipHeader ==
    /\ wpc = "skip"
    /\ wpc' = "rows"
    /\ UNCHANGED <<headers, rows, lookups, answers_column, question_column,
                   category_column, questions, result, scanVars, lineVars, examVars>>

\* one turn of the loop: the iterator yields the next data row
TakeRow ==
    /\ wpc = "rows"
    /\ Len(rows) < MaxRows
    /\ \E row \in DataRows(headers) :
          /\ rows' = Append(rows, row)
          /\ \E parsed \in {ParseRow(row, question_column, answers_column, category_column)} :
                IF parsed = <<>>
                THEN /\ result' = "panic"
                     /\ wpc' = "done"
                     /\ UNCHANGED questions
                ELSE /\ questions' = Append(questions, parsed[1])
                     /\ UNCHANGED <<result, wpc>>
    /\ UNCHANGED <<headers, lookups, answers_column, question_column, category_column,
                   scanVars, lineVars, examVars>>

\* the iterator is exhausted: Ok(ExamQuestions { questions })
ReturnOk ==
    /\ wpc = "rows"
    /\ result' = "Ok"
    /\ wpc' = "done"
    /\ UNCHANGED <<headers, rows, lookups, answers_column, question_column,
                   category_column, questions, scanVars, lineVars, examVars>>

BookInit ==
    /\ ScanInit
    /\ ExamIdle
    /\ wpc = "description4"
    /\ headers \in HeaderRows \cup {<<>>}
    /\ rows = <<>>
    /\ lookups = <<>>
    /\ answers_column = 0
    /\ question_column = 0
    /\ category_column = 0
    /\ questions = <<>>
    /\ result = ""

BookNext ==
    FindDescription4 \/ FindTitle2 \/ FindCategory \/ SkipHeader \/ TakeRow \/ ReturnOk

BookSpec == BookInit /\ [][BookNext]_vars

----------------------------------------------------------------------------
(* Exam (theory_test_ui): the questions for class B are filtered from the    *)
(* bank, num_questions of them are chosen, and the answers of each chosen    *)
(* question are shuffled.  The random generator is a free choice.            *)

ExamQuestion(num, possible, correct, classes) ==
    [num |-> num, question |-> Question1,
     answers |-> [possible_answers |-> possible, correct_answer |-> correct],
     category |-> "Safety", license_classes |-> classes, image_url |-> <<>>]

\* The questions a bank is drawn from: four distinct answers; answers of the
\* same text, the correct one not the first of them; an index one past the
\* last answer and an index into no answers, as parse_answers returns them;
\* a question that is not for class B.
QuestionPool ==
    {ExamQuestion(1, <<TextA, LineA, LineC1C, LineOpen>>, 2, <<"C", "B">>),
     ExamQuestion(2, <<TextA, LineA, TextA, LineA>>, 2, <<"B">>),
     ExamQuestion(3, <<TextA, TextA>>, 1, <<"B">>),
     ExamQuestion(4, <<TextA, LineA>>, 2, <<"B">>),
     ExamQuestion(5, <<>>, 0, <<"B">>),
     ExamQuestion(6, <<TextA, LineA, LineC1C, LineOpen>>, 0, <<"C1">>)}

Banks == UNION {[1..n -> QuestionPool] : n \in 0..MaxBank}

\* Vec::contains
VecContains(v, x) == \E i \in DOMAIN v : v[i] = x

\* iter().enumerate().find(|(_, q)| q == x).unwrap().0, 1-based here
Position(v, x) == CHOOSE i \in DOMAIN v : v[i] = x /\ \A j \in 1..(i - 1) : v[j] # x

ShuffleOrders(n) == {p \in [1..n -> 1..n] : \A i, j \in 1..n : p[i] = p[j] => i = j}

\* the sequences of k distinct indices of v, in any order
Choices(v, k) == {c \in [1..k -> DOMAIN v] : \A i, j \in 1..k : c[i] = c[j] => i = j}

\* mutant of ShuffleQuestion: the answers are shuffled and the index is left as it was
ShuffleKeepIndex(q, p) ==
    [q EXCEPT !.answers.possible_answers = [i \in DOMAIN @ |-> @[p[i]]]]

\* The body of the loop on a question whose correct index is valid: the answers
\* shuffled by permutation p, the index set to the first answer of the correct text.
ShuffleQuestion(q, p) ==
    LET correct_answer_str == q.answers.possible_answers[q.answers.correct_answer + 1]
        possible == [i \in DOMAIN q.answers.possible_answers |->
                        q.answers.possible_answers[p[i]]]
    IN  [q EXCEPT !.answers = [possible_answers |-> possible,
                               correct_answer |-> Position(possible, correct_answer_str) - 1]]

ExamFilter ==
    /\ epc = "filter"
    /\ b_questions' = SelectSeq(exam_questions, LAMBDA q : VecContains(q.license_classes, "B"))
    /\ epc' = "choose"
    /\ UNCHANGED <<exam_questions, num_questions, memo_questions, shuffled, original,
                   scanVars, lineVars, bookVars>>

\* choose_multiple: min(num_questions, len) of the questions, each once
ExamChoose ==
    /\ epc = "choose"
    /\ \E c \in Choices(b_questions, Min(num_questions, Len(b_questions))) :
          /\ memo_questions' = [i \in DOMAIN c |-> b_questions[c[i]]]
          /\ original' = [i \in DOMAIN c |-> b_questions[c[i]]]
    /\ epc' = "shuffle"
    /\ UNCHANGED <<exam_questions, num_questions, b_questions, shuffled,
                   scanVars, lineVars, bookVars>>

\* one turn of the loop; get(correct_answer).unwrap() panics on an index that is
\* none of the answers
ExamShuffle ==
    /\ epc = "shuffle"
    /\ shuffled < Len(memo_questions)
    /\ LET q == memo_questions[shuffled + 1]
       IN  IF q.answers.correct_answer >= Len(q.answers.possible_answers)
           THEN /\ epc' = "panic"
                /\ UNCHANGED <<memo_questions, shuffled>>
           ELSE /\ \E p \in ShuffleOrders(Len(q.answers.possible_answers)) :
                      memo_questions' =
                          [memo_questions EXCEPT ![shuffled + 1] = ShuffleQuestion(q, p)]
                /\ shuffled' = shuffled + 1
                /\ epc' = epc
    /\ UNCHANGED <<exam_questions, num_questions, b_questions, original,
                   scanVars, lineVars, bookVars>>

ExamReturn ==
    /\ epc = "shuffle"
    /\ shuffled = Len(memo_questions)
    /\ epc' = "done"
    /\ UNCHANGED <<exam_questions, num_questions, b_questions, memo_questions, shuffled,
                   original, scanVars, lineVars, bookVars>>

ExamInit ==
    /\ ScanInit
    /\ BookIdle
    /\ epc = "filter"
    /\ exam_questions \in Banks
    /\ num_questions \in 0..MaxBank
    /\ b_questions = <<>>
    /\ memo_questions = <<>>
    /\ shuffled = 0
    /\ original = <<>>

ExamNext == ExamFilter \/ ExamChoose \/ ExamShuffle \/ ExamReturn

ExamSpec == ExamInit /\ [][ExamNext]_vars

----------------------------------------------------------------------------
(* Claims about parse_answers *)

LastMarker == markers[Len(markers)]

\* C1: when exactly one marker tag was read, after N text runs with N in 0..3,
\* and a text run follows it, parse_answers returns N as the correct index,
\* whatever other tokens the stream holds.
C1_MarkerOnNthRun ==
    (pc = "done" /\ Len(markers) = 1 /\ markers[1] < POSSIBLE_ANSWERS_NUM
        /\ Len(runs) > markers[1])
    => correct_answer = markers[1]

C1_Witness ==
    /\ pc = "done"
    /\ Len(markers) = 1 /\ markers[1] = 3 /\ Len(runs) > 3
    /\ imgs # <<>>
    /\ correct_answer = 3

\* C2: when a marker tag was read, the returned correct index is a valid index
\* into the returned answers.
C2_IndexValid ==
    (pc = "done" /\ markers # <<>>) => correct_answer < Len(possible_answers)

\* C3, as claimed: the index recorded at a marker tag is that of the text run
\* collected as an answer immediately before the tag.
C3_PrecedingRun ==
    (markers # <<>> /\ LastMarker >= 1 /\ LastMarker <= POSSIBLE_ANSWERS_NUM)
    => correct_answer = LastMarker - 1

\* C3, amended: the index recorded at a marker tag is the number of answers
\* collected before it; with fewer than four collected, it is the index of the
\* text run that follows the tag.
C3_FollowingRun ==
    markers # <<>> =>
        /\ correct_answer = Min(LastMarker, POSSIBLE_ANSWERS_NUM)
        /\ (LastMarker < POSSIBLE_ANSWERS_NUM /\ Len(runs) > LastMarker)
            => /\ correct_answer < Len(possible_answers)
               /\ possible_answers[correct_answer + 1] = runs[LastMarker + 1]

C3_Witness ==
    /\ markers # <<>> /\ LastMarker = 2
    /\ Len(runs) = 4
    /\ runs[2] # runs[3]
    /\ possible_answers[correct_answer + 1] = runs[3]

\* C8: at every step the answers are the first min(4, k) of the k text runs
\* read so far, verbatim and in order, and never more than four.
C8_AnswersArePrefix ==
    /\ Len(possible_answers) <= POSSIBLE_ANSWERS_NUM
    /\ possible_answers = SubSeq(runs, 1, Min(POSSIBLE_ANSWERS_NUM, Len(runs)))

C8_Witness ==
    /\ Len(runs) = POSSIBLE_ANSWERS_NUM + 1
    /\ runs[2] = LineA
    /\ runs[1] # runs[3]
    /\ possible_answers = SubSeq(runs, 1, POSSIBLE_ANSWERS_NUM)

\* C9: the image reference is absent when no image element with a source was
\* read, and otherwise the source of the last one read.
C9_LastImage ==
    image_url = IF imgs = <<>> THEN <<>> ELSE <<imgs[Len(imgs)]>>

C9_Witness ==
    /\ pc = "done"
    /\ Len(imgs) = 2 /\ imgs[1] # imgs[2]
    /\ runs # <<>> /\ markers # <<>>
    /\ image_url = <<imgs[2]>>

\* C10: the scan reaches end-of-input and returns, and a step that reads an
\* error token changes none of the four results.
C10_TerminatesSkippingErrors ==
    /\ <>(pc = "done")
    /\ [][errs' # errs =>
            UNCHANGED <<possible_answers, license_classes, correct_answer, image_url>>]_vars

C10_Witness ==
    /\ pc = "done"
    /\ errs >= 2
    /\ possible_answers # <<>>
    /\ image_url # <<>>
    /\ markers # <<>>

----------------------------------------------------------------------------
(* Claims about the classes line *)

Range(f) == {f[i] : i \in DOMAIN f}

\* the decoder's table from tag to class, C1 and C being each other's counterparts
ClassOfPiece(p) ==
    CASE p = "A" -> "A"
      [] p = "Ve" -> "B"
      [] p = "C1" -> "C"
      [] p = "C" -> "C1"
      [] OTHER -> "D"

\* C4: for a classes line read after four answers, the classes returned are
\* exactly those of the tags the line holds, in any order and repetition.
C4_ClassesOfLine ==
    (lineKind \in {"line", "lineSpace"}) =>
        Range(license_classes) =
            {ClassOfPiece(p) : p \in Range(lineSegs) \cap {"A", "Ve", "C1", "C", "D"}}

C4_Witness ==
    /\ pc = "done"
    /\ lineKind = "lineSpace"
    /\ Len(lineSegs) = 5
    /\ lineSegs[1] = "D" /\ lineSegs[2] = "C" /\ lineSegs[3] = "B"
    /\ lineSegs[4] = "Sep" /\ lineSegs[5] = "Ve"
    /\ Range(license_classes) = {"D", "C1", "B"}

----------------------------------------------------------------------------
(* Claims about parse_from_workbook *)

RequiredHeaders == {"description4", "title2", "category"}

MissingHeaders == RequiredHeaders \ Range(headers)

ErrorFor(h) ==
    CASE h = "description4" -> "NoDescription4Header"
      [] h = "title2" -> "NoTitle2Header"
      [] OTHER -> "NoCategoryHeader"

\* C5, as claimed: all three lookups are performed whatever the earlier ones
\* found, and the error of every absent required header is reported.
C5_EveryMissingReported ==
    (wpc = "done" /\ headers # <<>> /\ MissingHeaders # {})
    => /\ RequiredHeaders \subseteq Range(lookups)
       /\ \A h \in MissingHeaders : result = ErrorFor(h)

\* C5, amended: the lookups run in the order description4, title2, category and
\* stop at the first absent header; its error alone is reported.
C5_FirstMissingOnly ==
    (wpc = "done" /\ headers # <<>> /\ MissingHeaders # {})
    => IF "description4" \in MissingHeaders
       THEN result = "NoDescription4Header" /\ lookups = <<"description4">>
       ELSE IF "title2" \in MissingHeaders
       THEN result = "NoTitle2Header" /\ lookups = <<"description4", "title2">>
       ELSE result = "NoCategoryHeader"
            /\ lookups = <<"description4", "title2", "category">>

C5_Witness ==
    /\ wpc = "done"
    /\ MissingHeaders = {"title2", "category"}
    /\ result = "NoTitle2Header"
    /\ lookups = <<"description4", "title2">>

\* C6: a header row lacking exactly one required name gives the error of that
\* name; no row is decoded and no record produced.
C6_OneMissingHeader ==
    (wpc = "done" /\ headers # <<>> /\ Cardinality(MissingHeaders) = 1)
    => /\ \A h \in MissingHeaders : result = ErrorFor(h)
       /\ questions = <<>>
       /\ rows = <<>>

C6_Witness ==
    /\ wpc = "done"
    /\ MissingHeaders = {"title2"}
    /\ headers[1] = "Title2"
    /\ Len(headers) = 3
    /\ result = "NoTitle2Header"
    /\ questions = <<>>

\* the first column of the header row named title2
TitleColumn ==
    CHOOSE i \in DOMAIN headers :
        headers[i] = "title2" /\ \A j \in DOMAIN headers : headers[j] = "title2" => i <= j

NumberIn(question) == IF question = Question1 THEN 1 ELSE 12

\* C7: on Ok the bank holds one record per data row, in worksheet order: the
\* i-th record has the question text of the i-th row after the header, in
\* full, and the number in its first four characters.
C7_OneRecordPerRow ==
    result = "Ok" =>
        /\ Len(questions) = (1 + Len(rows)) - 1
        /\ \A i \in DOMAIN questions :
              /\ questions[i].question = rows[i][TitleColumn].val
              /\ questions[i].num = NumberIn(rows[i][TitleColumn].val)

C7_Witness ==
    /\ result = "Ok"
    /\ Len(headers) = 4
    /\ Len(rows) = 2
    /\ Len(questions) = 2
    /\ questions[1].question = Question2 /\ questions[1].num = 12
    /\ questions[2].question = Question1 /\ questions[2].num = 1

----------------------------------------------------------------------------
(* Column order *)

Columns(name) == {i \in DOMAIN headers : headers[i] = name}

\* the header row holds each required name once; its other columns are extras
RequiredOnce == \A h \in RequiredHeaders : Cardinality(Columns(h)) = 1

TheColumn(name) == CHOOSE i \in Columns(name) : TRUE

\* the extra columns, in the order they stand in
ExtraColumns ==
    SelectSeq([i \in DOMAIN headers |-> i], LAMBDA i : headers[i] \notin RequiredHeaders)

\* the columns in canonical order: title2, description4, category, the extras
CanonicalOrder ==
    <<TheColumn("title2"), TheColumn("description4"), TheColumn("category")>>
    \o ExtraColumns

Reordered(row, order) == [k \in DOMAIN order |-> row[order[k]]]

\* C11: whatever order the three required headers and the extra headers stand
\* in, the parse gives, record by record, what it gives for the same worksheet
\* with its columns in canonical order.
C11_ColumnOrderIndependent ==
    (wpc = "done" /\ headers # <<>> /\ RequiredOnce)
    => [result |-> result, questions |-> questions]
       = parse_from_workbook(Reordered(headers, CanonicalOrder),
                             [i \in DOMAIN rows |-> Reordered(rows[i], CanonicalOrder)])

C11_Witness ==
    /\ wpc = "done"
    /\ result = "Ok"
    /\ headers = <<"category", "Title2", "description4", "title2">>
    /\ Len(questions) = 2
    /\ questions[1].num # questions[2].num
    /\ questions[1].category # questions[2].category

----------------------------------------------------------------------------
(* Claims about Exam *)

Occurrences(v, x) == Cardinality({i \in DOMAIN v : v[i] = x})

IsPermutationOf(v, w) ==
    /\ Len(v) = Len(w)
    /\ \A x \in Range(v) \cup Range(w) : Occurrences(v, x) = Occurrences(w, x)

\* C12: of every chosen question the loop has shuffled, the answers are a
\* permutation of the answers it had, and the answer at the new correct index
\* has the text of the answer at the old one.
C12_ShuffleKeepsCorrectAnswer ==
    \A i \in 1..shuffled :
        LET old == original[i].answers
            new == memo_questions[i].answers
        IN  old.correct_answer < Len(old.possible_answers) =>
                /\ IsPermutationOf(new.possible_answers, old.possible_answers)
                /\ new.correct_answer < Len(new.possible_answers)
                /\ new.possible_answers[new.correct_answer + 1]
                   = old.possible_answers[old.correct_answer + 1]

C12_Witness ==
    /\ epc = "done"
    /\ shuffled = 2
    /\ original[1].num = 2 /\ original[2].num = 1
    /\ memo_questions[1].answers.possible_answers = <<LineA, TextA, LineA, TextA>>
    /\ memo_questions[1].answers.correct_answer = 1
    /\ memo_questions[2].answers.possible_answers # original[2].answers.possible_answers
    /\ memo_questions[2].answers.correct_answer # original[2].answers.correct_answer

====
